---- MODULE Spec2Model ----
(***************************************************************************)
(* pyeditorjs/blocks.py: the Editor.js block classes and their html()      *)
(* renderers.                                                              *)
(*                                                                         *)
(* A Python str is a sequence of tokens (a run of plain text, one tag, one *)
(* escaped tag, one fixed piece of an f-string); concatenation is \o.      *)
(* A Python value is a record [t |-> <type>, v |-> <payload>]; a dict is a *)
(* function from its keys; a raised exception is the value                 *)
(* [t |-> "raise", v |-> <<name>>], which every caller passes on.          *)
(***************************************************************************)
EXTENDS Integers, Sequences, FiniteSets, TLC

VARIABLES cls, self, sanitize, result, prevSanitize, prev

vars == <<cls, self, sanitize, result, prevSanitize, prev>>

\* ------------------------------------------------------------ bounds
\* Longest quote caption, in tokens.
MaxLen == 3
\* Most items of a list block.
MaxItems == 2
\* Largest integer header level tried (levels 0..MaxLevel).
MaxLevel == 7

\* ------------------------------------------------------ Python values
Str(s) == [t |-> "str", v |-> s]
None == [t |-> "none", v |-> <<>>]
PyInt(n) == [t |-> "int", v |-> n]
Bool(b) == [t |-> "bool", v |-> b]
Dict(d) == [t |-> "dict", v |-> d]
List(l) == [t |-> "list", v |-> l]
Ok(s) == [t |-> "ok", v |-> s]
Raise(e) == [t |-> "raise", v |-> <<e>>]
\* Not a Python value: a key left out of a dict under construction, and the
\* result of an object whose html() has not been called.
Absent == [t |-> "absent", v |-> <<>>]
NotRendered == [t |-> "notrendered", v |-> <<>>]
EmptyDict == Dict([k \in {} |-> None])

\* dict.get(key, default)
Get(d, key, default) == IF key \in DOMAIN d.v THEN d.v[key] ELSE default

\* The dict holding the keys of fields whose value is not Absent.
MkDict(fields) ==
    Dict([k \in {x \in DOMAIN fields : fields[x].t # "absent"} |-> fields[k]])

\* bool(value), as `x if value else y` tests it.
Truthy(val) ==
    CASE val.t = "none" -> FALSE
      [] val.t = "str" -> val.v # <<>>
      [] val.t = "list" -> val.v # <<>>
      [] val.t = "bool" -> val.v
      [] val.t = "int" -> val.v # 0
      [] OTHER -> TRUE

\* format(value), as an f-string's {value} writes it.
Fmt(val) ==
    CASE val.t = "str" -> val.v
      [] val.t = "none" -> <<"None">>
      [] val.t = "int" -> <<ToString(val.v)>>
      [] val.t = "bool" -> IF val.v THEN <<"True">> ELSE <<"False">>
      [] OTHER -> <<"?">>

\* str.endswith('<br>') and the slice [:-4] that removes it.
EndsWithBr(s) == Len(s) > 0 /\ s[Len(s)] = "<br>"
DropLast(s) == SubSeq(s, 1, Len(s) - 1)

\* ------------------------------------------------------------ bleach
\* The markup tokens of the model's texts: <b> is a paired tag, <br> and
\* <input> are void tags.
IsOpenTag(tok) == tok = "<b>"
IsCloseTag(tok) == tok = "</b>"
IsVoidTag(tok) == tok \in {"<br>", "<input>"}
IsTag(tok) == IsOpenTag(tok) \/ IsCloseTag(tok) \/ IsVoidTag(tok)
TagName(tok) ==
    CASE tok \in {"<b>", "</b>"} -> "b"
      [] tok = "<br>" -> "br"
      [] tok = "<input>" -> "input"
      [] OTHER -> ""
\* A tag written as text: < and > become &lt; and &gt;.
Escape(tok) ==
    CASE tok = "<b>" -> "&lt;b&gt;"
      [] tok = "</b>" -> "&lt;/b&gt;"
      [] tok = "<br>" -> "&lt;br&gt;"
      [] tok = "<input>" -> "&lt;input&gt;"
      [] OTHER -> tok

\* bleach parses the text into a tree and serialises the tree: an end tag
\* that closes nothing is dropped, an element left open is closed at the end.
RECURSIVE Balance(_, _, _)
Balance(s, i, depth) ==
    IF i > Len(s)
    THEN [k \in 1..depth |-> "</b>"]
    ELSE IF IsOpenTag(s[i]) THEN <<s[i]>> \o Balance(s, i + 1, depth + 1)
    ELSE IF IsCloseTag(s[i])
         THEN IF depth > 0 THEN <<s[i]>> \o Balance(s, i + 1, depth - 1)
              ELSE Balance(s, i + 1, depth)
    ELSE <<s[i]>> \o Balance(s, i + 1, depth)

\* bleach.clean(text, tags=tags) with strip=False: a tag outside `tags` is
\* escaped, not removed; text and character references pass unchanged.
bleach_clean(s, tags) ==
    LET tree == Balance(s, 1, 0)
    IN [i \in 1..Len(tree) |->
          IF IsTag(tree[i]) /\ TagName(tree[i]) \notin tags
          THEN Escape(tree[i]) ELSE tree[i]]

SanitizeTags == {"b", "i", "u", "a", "mark", "code", "s", "del", "br", "span"}

\* _sanitize with a fault: the allow-list also lets <input> through.
SanitizeAllowsInput(html) ==
    IF html.t # "str" THEN Raise("TypeError")
    ELSE Str(bleach_clean(html.v, SanitizeTags \cup {"input"}))

_sanitize(html) ==
    IF html.t # "str" THEN Raise("TypeError")
    ELSE Str(bleach_clean(html.v, SanitizeTags))

\* html.replace("<br>", "\n")
ReplaceBr(s) == [i \in 1..Len(s) |-> IF s[i] = "<br>" THEN "\n" ELSE s[i]]

_clean(html) ==
    IF html.t # "str" THEN Raise("AttributeError")
    ELSE Str(bleach_clean(ReplaceBr(html.v), {}))

\* -------------------------------------------------------- EditorJsBlock
\* The data and tunes properties: _data.get("data", {}), _data.get("tunes", {}).
data(obj) == Get(obj, "data", EmptyDict)
tunes(obj) == Get(obj, "tunes", EmptyDict)

\* `a if sanitize else b` around _sanitize.
IfSanitize(flag, val) == IF flag THEN _sanitize(val) ELSE val

\* ------------------------------------------------------------ CodeBlock
CodeBlock_text(obj) == Get(data(obj), "code", None)

\* CodeBlock.html with a fault: the code is sanitized when the flag is set.
CodeBlock_html_sanitizing(obj, flag) ==
    LET text == IfSanitize(flag, CodeBlock_text(obj))
    IN IF text.t = "raise" THEN text
       ELSE Ok(<<"<div class=\"cdx-block ce-code\"><pre>">> \o Fmt(text)
               \o <<"</pre></div>">>)

CodeBlock_html(obj, flag) ==
    Ok(<<"<div class=\"cdx-block ce-code\"><pre>">> \o Fmt(CodeBlock_text(obj))
       \o <<"</pre></div>">>)

\* ---------------------------------------------------------- HeaderBlock
VALID_HEADER_LEVEL_RANGE == 1..6

HeaderBlock_text(obj) == Get(data(obj), "text", None)

\* isinstance(_level, int): a bool is an int. `_level in range(1, 7)`:
\* True == 1 and False == 0.
IsInstanceInt(val) == val.t \in {"int", "bool"}
AsInt(val) == IF val.t = "bool" THEN (IF val.v THEN 1 ELSE 0) ELSE val.v

HeaderBlock_level(obj) ==
    LET _level == Get(data(obj), "level", PyInt(1))
    IN IF ~IsInstanceInt(_level) \/ AsInt(_level) \notin VALID_HEADER_LEVEL_RANGE
       THEN Raise("EditorJsParseError")
       ELSE _level

HeaderBlock_html(obj, flag) ==
    LET level == HeaderBlock_level(obj)
        text == IfSanitize(flag, HeaderBlock_text(obj))
    IN IF level.t = "raise" THEN level
       ELSE IF text.t = "raise" THEN text
       ELSE Ok(<<"<h">> \o Fmt(level) \o <<" class=\"cdx-block ce-header\">">>
               \o Fmt(text) \o <<"</h">> \o Fmt(level) \o <<">">>)

\* ------------------------------------------------------- ParagraphBlock
ParagraphBlock_text(obj) == Get(data(obj), "text", None)

ParagraphBlock_html(obj, flag) ==
    LET tune == Get(tunes(obj), "AlignmentTune",
                    MkDict([alignment |-> Str(<<"left">>)]))
        text == IfSanitize(flag, ParagraphBlock_text(obj))
    IN IF "alignment" \notin DOMAIN tune.v THEN Raise("KeyError")
       ELSE IF text.t = "raise" THEN text
       ELSE Ok(<<"<p style=\"text-align: ">> \o Fmt(tune.v["alignment"])
               \o <<"\" class=\"cdx-block ce-paragraph\">">>
               \o Fmt(text) \o <<"</p>">>)

\* --------------------------------------------------------- WarningBlock
WarningBlock_title(obj) == Get(data(obj), "title", None)
WarningBlock_message(obj) == Get(data(obj), "message", None)

WarningBlock_html(obj, flag) ==
    LET title == IfSanitize(flag, WarningBlock_title(obj))
        message == IfSanitize(flag, WarningBlock_message(obj))
    IN IF title.t = "raise" THEN title
       ELSE IF message.t = "raise" THEN message
       ELSE Ok(<<"<div class=\"cdx-block ce-warning\">",
                 "  <blockquote class=\"ce-warning__blockquote\">">>
               \o (IF Truthy(title)
                   THEN <<"    <b class=\"ce-warning__title\">">> \o Fmt(title)
                        \o <<"</b>">>
                   ELSE <<>>)
               \o (IF Truthy(message)
                   THEN <<"    <div class=\"ce-warning__message\">">>
                        \o Fmt(message) \o <<"</div>">>
                   ELSE <<>>)
               \o <<"  </blockquote>", "</div>">>)

\* ----------------------------------------------------------- QuoteBlock
QuoteBlock_text(obj) == Get(data(obj), "text", None)
QuoteBlock_alignment(obj) == Get(data(obj), "alignment", None)
QuoteBlock_caption(obj) == Get(data(obj), "caption", None)

\* The caption rule of QuoteBlock, EmbedBlock and MediaBlock:
\*   caption = _sanitize(self.caption) if sanitize else self.caption
\*   if caption.endswith('<br>'): caption = caption[:-4]
\* None has no endswith: AttributeError.
\* The rule with a fault (TrimCaptionAll): every trailing <br> is removed,
\* not one.
RECURSIVE DropAllBr(_)
DropAllBr(s) == IF EndsWithBr(s) THEN DropAllBr(DropLast(s)) ELSE s

TrimCaptionAll(raw, flag) ==
    LET caption == IfSanitize(flag, raw)
    IN IF caption.t = "raise" THEN caption
       ELSE IF caption.t # "str" THEN Raise("AttributeError")
       ELSE Str(DropAllBr(caption.v))

TrimCaption(raw, flag) ==
    LET caption == IfSanitize(flag, raw)
    IN IF caption.t = "raise" THEN caption
       ELSE IF caption.t # "str" THEN Raise("AttributeError")
       ELSE IF EndsWithBr(caption.v) THEN Str(DropLast(caption.v))
       ELSE caption

QuoteBlock_html(obj, flag) ==
    LET caption == TrimCaption(QuoteBlock_caption(obj), flag)
        inCite == IfSanitize(flag, caption)
        text == IfSanitize(flag, QuoteBlock_text(obj))
    IN IF caption.t = "raise" THEN caption
       ELSE IF Truthy(caption) /\ inCite.t = "raise" THEN inCite
       ELSE IF text.t = "raise" THEN text
       ELSE Ok(<<"<div class=\"cdx-block ce-quote ce-quote-with-align-">>
               \o Fmt(QuoteBlock_alignment(obj))
               \o (IF Truthy(QuoteBlock_caption(obj))
                   THEN <<" ce-quote-with-caption">> ELSE <<>>)
               \o <<"\">", "      <blockquote class=\"ce-quote__blockquote\">">>
               \o Fmt(text)
               \o (IF Truthy(caption)
                   THEN <<"<cite class=\"ce-quote__caption\">">> \o Fmt(inCite)
                        \o <<"</cite>">>
                   ELSE <<>>)
               \o <<"      </blockquote>", "</div>">>)

\* ------------------------------------------------------------ ListBlock
VALID_STYLES == {<<"unordered">>, <<"ordered">>}

ListBlock_style(obj) == Get(data(obj), "style", None)
ListBlock_items(obj) == Get(data(obj), "items", List(<<>>))

\* `self.style not in self.VALID_STYLES`
ValidStyle(style) == style.t = "str" /\ style.v \in VALID_STYLES

\* [f"<li>{...}</li>" for item in items], joined; the first item whose
\* sanitizing raises ends the comprehension.
RECURSIVE ListItems(_, _, _)
ListItems(items, i, flag) ==
    IF i > Len(items) THEN Ok(<<>>)
    ELSE LET item == IfSanitize(flag, items[i])
             rest == ListItems(items, i + 1, flag)
         IN IF item.t = "raise" THEN item
            ELSE IF rest.t = "raise" THEN rest
            ELSE Ok(<<"<li>">> \o Fmt(item) \o <<"</li>">> \o rest.v)

\* ListBlock.html with a fault: the tag is chosen the wrong way round.
ListBlock_html_swapped(obj, flag) ==
    LET style == ListBlock_style(obj)
        _items == ListItems(ListBlock_items(obj).v, 1, flag)
        _type == IF style.v = <<"unordered">> THEN "ol" ELSE "ul"
    IN IF ~ValidStyle(style) THEN Raise("EditorJsParseError")
       ELSE IF _items.t = "raise" THEN _items
       ELSE Ok(<<"<", _type, " class=\"cdx-block cdx-list cdx-list--">>
               \o Fmt(style) \o <<"\">">> \o _items.v \o <<"</", _type, ">">>)

ListBlock_html(obj, flag) ==
    LET style == ListBlock_style(obj)
        _items == ListItems(ListBlock_items(obj).v, 1, flag)
        _type == IF style.v = <<"unordered">> THEN "ul" ELSE "ol"
    IN IF ~ValidStyle(style) THEN Raise("EditorJsParseError")
       ELSE IF _items.t = "raise" THEN _items
       ELSE Ok(<<"<", _type, " class=\"cdx-block cdx-list cdx-list--">>
               \o Fmt(style) \o <<"\">">> \o _items.v \o <<"</", _type, ">">>)

\* ------------------------------------------------------- DelimiterBlock
DelimiterBlock_html(obj, flag) ==
    Ok(<<"<div class=\"cdx-block ce-delimiter\"><hr/></div>">>)

\* ------------------------------------------------------------- RawBlock
RawBlock_html(obj, flag) ==
    Ok(<<"<div class=\"cdx-block ce-raw\">">>
       \o Fmt(Get(data(obj), "html", Str(<<>>))) \o <<"</div>">>)

\* ----------------------------------------------------------- EmbedBlock
EmbedBlock_service(obj) == Get(data(obj), "service", Str(<<>>))
EmbedBlock_source(obj) == Get(data(obj), "source", Str(<<>>))
EmbedBlock_embed(obj) == Get(data(obj), "embed", Str(<<>>))
EmbedBlock_caption(obj) == Get(data(obj), "caption", None)

YoutubeParts(obj) ==
    <<"<iframe src=\"">> \o Fmt(EmbedBlock_embed(obj))
    \o <<"\" width=\"100%\" style=\"aspect-ratio: 16/9\" frameborder=\"0\" allow=\"accelerometer; autoplay; clipboard-write; encrypted-media; gyroscope; picture-in-picture; web-share\" allowfullscreen></iframe>">>

TwitterParts(obj) ==
    <<"<blockquote class=\"twitter-tweet\">",
      "<blockquote class=\"twitter-tweet\"><a href=\"">>
    \o Fmt(EmbedBlock_source(obj))
    \o <<"\"></a></blockquote>",
         "<script async src=\"https://platform.twitter.com/widgets.js\" charset=\"utf-8\"></script>">>

\* EmbedBlock.html with a fault: the two services' markup is exchanged.
EmbedBlock_html_exchanged(obj, flag) ==
    LET caption == TrimCaption(EmbedBlock_caption(obj), flag)
        service == EmbedBlock_service(obj)
    IN IF caption.t = "raise" THEN caption
       ELSE Ok(<<"<div class=\"cdx-block embed-tool embed-tool-">>
               \o Fmt(service)
               \o <<"\">", "<figure>", "<div class=\"embed-tool__embed\">">>
               \o (IF service.t = "str" /\ service.v = <<"twitter">>
                   THEN YoutubeParts(obj)
                   ELSE IF service.t = "str" /\ service.v = <<"youtube">>
                   THEN TwitterParts(obj)
                   ELSE <<>>)
               \o <<"</div>", "<figcaption class=\"embed-tool__caption\">">>
               \o Fmt(caption) \o <<"</figcaption>", "</figure>", "</div>">>)

EmbedBlock_html(obj, flag) ==
    LET caption == TrimCaption(EmbedBlock_caption(obj), flag)
        service == EmbedBlock_service(obj)
    IN IF caption.t = "raise" THEN caption
       ELSE Ok(<<"<div class=\"cdx-block embed-tool embed-tool-">>
               \o Fmt(service)
               \o <<"\">", "<figure>", "<div class=\"embed-tool__embed\">">>
               \o (IF service.t = "str" /\ service.v = <<"youtube">>
                   THEN YoutubeParts(obj)
                   ELSE IF service.t = "str" /\ service.v = <<"twitter">>
                   THEN TwitterParts(obj)
                   ELSE <<>>)
               \o <<"</div>", "<figcaption class=\"embed-tool__caption\">">>
               \o Fmt(caption) \o <<"</figcaption>", "</figure>", "</div>">>)

\* ----------------------------------------------------------- MediaBlock
MediaBlock_file_mimetype(obj) ==
    Get(Get(data(obj), "file", EmptyDict), "mimetype", None)
MediaBlock_file_url(obj) ==
    Get(Get(data(obj), "file", EmptyDict), "urls", None)
MediaBlock_caption(obj) == Get(data(obj), "caption", None)
MediaBlock_with_border(obj) == Get(data(obj), "withBorder", Bool(FALSE))
MediaBlock_stretched(obj) == Get(data(obj), "stretched", Bool(FALSE))
MediaBlock_with_background(obj) == Get(data(obj), "withBackground", Bool(FALSE))

\* A mimetype is the sequence of its pieces: "image/svg+xml" is
\* <<"image", "/", "svg", "+xml">>.
\* mimetype.startswith(prefix), prefix one piece
StartsWith(s, prefix) == Len(s) > 0 /\ s[1] = prefix
\* 'image/svg' in mimetype
ContainsImageSvg(s) ==
    \E i \in 1..Len(s) :
        i + 2 <= Len(s) /\ s[i] = "image" /\ s[i + 1] = "/" /\ s[i + 2] = "svg"

\* ' '.join(classes)
MediaClasses(obj) ==
    <<"cdx-block media-tool media-tool--filled">>
    \o (IF Truthy(MediaBlock_stretched(obj))
        THEN <<" media-tool--stretched">> ELSE <<>>)
    \o (IF Truthy(MediaBlock_with_border(obj))
        THEN <<" media-tool--withBorder">> ELSE <<>>)
    \o (IF Truthy(MediaBlock_with_background(obj))
        THEN <<" media-tool--withBackground">> ELSE <<>>)

\* The srcset of an image: a str, or [] for image/svg.
MediaSrcset(_url, mimetype) ==
    IF ~ContainsImageSvg(mimetype)
    THEN Str(Fmt(Get(_url, "normal", None)) \o <<" 1080w, ">>
             \o Fmt(Get(_url, "medium", None)) \o <<" 720w, ">>
             \o Fmt(Get(_url, "small", None)) \o <<" 480w">>)
    ELSE List(<<>>)

\* The image branch with a fault: image/svg gets a srcset too.
MediaImage_srcsetAlways(_url, mimetype, caption) ==
    LET srcset == MediaSrcset(_url, <<"image", "/", "png">>)
    IN <<"     <img class=\"media-tool__media-picture\" src=\"">>
       \o Fmt(Get(_url, "full", Str(<<>>))) \o <<"\" ">>
       \o <<"srcset=\"">> \o Fmt(srcset) \o <<"\" ">>
       \o <<"alt=\"">> \o Fmt(_clean(caption)) \o <<"\" />">>

MediaImage(_url, mimetype, caption) ==
    LET srcset == MediaSrcset(_url, mimetype)
    IN <<"     <img class=\"media-tool__media-picture\" src=\"">>
       \o Fmt(Get(_url, "full", Str(<<>>))) \o <<"\" ">>
       \o (IF Truthy(srcset)
           THEN <<"srcset=\"">> \o Fmt(srcset) \o <<"\" ">> ELSE <<>>)
       \o <<"alt=\"">> \o Fmt(_clean(caption)) \o <<"\" />">>

MediaVideo(_url) ==
    <<"     <video class=\"media-tool__media-picture\" src=\"">>
    \o Fmt(Get(_url, "full", Str(<<>>))) \o <<"\" controls=\"\"></video>">>

MediaBlock_html(obj, flag) ==
    LET _url == MediaBlock_file_url(obj)
        caption == TrimCaption(MediaBlock_caption(obj), flag)
        mimetype == MediaBlock_file_mimetype(obj)
        isImage == StartsWith(mimetype.v, "image")
        isVideo == StartsWith(mimetype.v, "video")
    IN IF caption.t = "raise" THEN caption
       ELSE IF mimetype.t # "str" THEN Raise("AttributeError")
       ELSE IF (isImage \/ isVideo) /\ _url.t # "dict"
       THEN Raise("AttributeError")
       ELSE Ok(<<"<div class=\"">> \o MediaClasses(obj)
               \o <<"\">", "<figure>", "  <div class=\"media-tool__media\">">>
               \o (IF isImage THEN MediaImage(_url, mimetype.v, caption)
                   ELSE IF isVideo THEN MediaVideo(_url)
                   ELSE <<>>)
               \o <<"  </div>",
                    "<figcaption class=\"media-tool__caption\" data-placeholder=\"">>
               \o Fmt(_clean(caption)) \o <<"\">">> \o Fmt(caption)
               \o <<"</figcaption>", "</figure>", "</div>">>)

\* --------------------------------------------------------- TelegramPost
TelegramPost_messageId(obj) == Get(data(obj), "messageId", Str(<<>>))
TelegramPost_channelName(obj) == Get(data(obj), "channelName", Str(<<>>))

TelegramPost_html(obj, flag) ==
    Ok(<<"<div class=\"cdx-block telegram-post\">",
         "<script async src=\"https://telegram.org/js/telegram-widget.js?22\" data-telegram-post=\"">>
       \o Fmt(TelegramPost_channelName(obj)) \o <<"/">>
       \o Fmt(TelegramPost_messageId(obj))
       \o <<"\" data-width=\"100%\"></script>", "</div>">>)

\* ------------------------------------------------------ the inputs
\* The tokens of a caption, and every caption of at most n tokens.
Alphabet == {"cap", "<br>", "<b>", "</b>", "<input>"}
TextsUpTo(n) == UNION {[1..k -> Alphabet] : k \in 0..n}

\* The texts of the other fields: empty, plain, ending in a line break,
\* a tag outside the allow-list, a closed and an unclosed allowed tag.
SampleTexts ==
    {<<>>, <<"Hi">>, <<"Hi", "<br>">>, <<"<input>">>,
     <<"<b>", "Hi", "</b>">>, <<"<b>", "Hi">>}
ItemTexts == {<<>>, <<"Hi">>, <<"<input>">>, <<"<b>", "Hi">>}

\* Each text as a str, or the key left out.
StrOpt(texts) == {Str(x) : x \in texts} \cup {Absent}

\* The raw JSON of a block: {"type": ..., "data": ..., "tunes": ...}.
MkBlock(type, dataVal, tunesVal) ==
    MkDict([type |-> Str(<<type>>), data |-> dataVal, tunes |-> tunesVal])

Levels ==
    {Absent, None, Bool(TRUE), Bool(FALSE), Str(<<"2">>)}
    \cup {PyInt(n) : n \in 0..MaxLevel}

HeaderObjects ==
    {MkBlock("header", MkDict([level |-> l, text |-> x]), Absent) :
        l \in Levels, x \in StrOpt(SampleTexts)}

AlignmentTunes ==
    {Absent, EmptyDict,
     MkDict([AlignmentTune |-> MkDict([alignment |-> Str(<<"center">>)])]),
     MkDict([AlignmentTune |-> EmptyDict])}

ParagraphObjects ==
    {MkBlock("paragraph", MkDict([text |-> x]), tn) :
        x \in StrOpt(SampleTexts), tn \in AlignmentTunes}

WarningObjects ==
    {MkBlock("warning", MkDict([title |-> x, message |-> y]), Absent) :
        x \in StrOpt(SampleTexts), y \in StrOpt(SampleTexts)}

QuoteObjects ==
    {MkBlock("quote", MkDict([text |-> x, alignment |-> a, caption |-> c]),
             Absent) :
        x \in StrOpt({<<"Hi">>, <<"Hi", "<br>">>}),
        a \in StrOpt({<<"left">>}),
        c \in StrOpt(TextsUpTo(MaxLen))}

ListObjects ==
    {MkBlock("list", MkDict([style |-> st, items |-> its]), Absent) :
        st \in StrOpt({<<"ordered">>, <<"unordered">>, <<"checklist">>}),
        its \in {Absent} \cup
                {List([i \in 1..Len(f) |-> Str(f[i])]) :
                    f \in UNION {[1..k -> ItemTexts] : k \in 0..MaxItems}}}

CodeObjects ==
    {MkBlock("code", MkDict([code |-> x]), Absent) : x \in StrOpt(SampleTexts)}
    \cup {MkBlock("code", Absent, Absent)}

DelimiterObjects ==
    {MkBlock("delimiter", EmptyDict, Absent), MkBlock("delimiter", Absent, Absent)}

RawObjects ==
    {MkBlock("raw", MkDict([html |-> x]), Absent) : x \in StrOpt(SampleTexts)}
    \cup {MkBlock("raw", Absent, Absent)}

EmbedObjects ==
    {MkBlock("embed",
             MkDict([service |-> sv, source |-> so, embed |-> em, caption |-> c]),
             Absent) :
        sv \in StrOpt({<<"youtube">>, <<"twitter">>, <<"vimeo">>}),
        so \in StrOpt({<<"https://t.example/1">>}),
        em \in StrOpt({<<"https://y.example/1">>}),
        c \in StrOpt(SampleTexts)}

Mimetypes ==
    {<<"image", "/", "png">>, <<"image", "/", "svg", "+xml">>,
     <<"video", "/", "mp4">>, <<"application", "/", "pdf">>}

Urls ==
    {Absent,
     MkDict([full |-> Str(<<"f">>), normal |-> Str(<<"n">>),
             medium |-> Str(<<"m">>), small |-> Str(<<"s">>)]),
     MkDict([full |-> Str(<<"f">>)])}

Files ==
    {Absent} \cup
    {MkDict([mimetype |-> m, urls |-> u]) : m \in StrOpt(Mimetypes), u \in Urls}

Flags == {Absent, Bool(TRUE)}

MediaObjects ==
    {MkBlock("media",
             MkDict([file |-> f, caption |-> c, withBorder |-> wb,
                     stretched |-> sr, withBackground |-> wg]),
             Absent) :
        f \in Files, c \in StrOpt(SampleTexts),
        wb \in Flags, sr \in Flags, wg \in Flags}

TelegramObjects ==
    {MkBlock("telegramPost", MkDict([channelName |-> ch, messageId |-> id]),
             Absent) :
        ch \in StrOpt({<<"chan">>}), id \in StrOpt({<<"42">>})}

Objects(class) ==
    CASE class = "CodeBlock" -> CodeObjects
      [] class = "HeaderBlock" -> HeaderObjects
      [] class = "ParagraphBlock" -> ParagraphObjects
      [] class = "WarningBlock" -> WarningObjects
      [] class = "QuoteBlock" -> QuoteObjects
      [] class = "ListBlock" -> ListObjects
      [] class = "DelimiterBlock" -> DelimiterObjects
      [] class = "RawBlock" -> RawObjects
      [] class = "EmbedBlock" -> EmbedObjects
      [] class = "MediaBlock" -> MediaObjects
      [] class = "TelegramPost" -> TelegramObjects

Classes ==
    {"CodeBlock", "HeaderBlock", "ParagraphBlock", "WarningBlock", "QuoteBlock",
     "ListBlock", "DelimiterBlock", "RawBlock", "EmbedBlock", "MediaBlock",
     "TelegramPost"}

\* ------------------------------------------------------ the program
\* A block object of one class has been constructed over its raw JSON;
\* html() has not been called.
Init ==
    /\ cls \in Classes
    /\ self \in Objects(cls)
    /\ sanitize = FALSE
    /\ result = NotRendered
    /\ prevSanitize = FALSE
    /\ prev = NotRendered

\* One call self.html(flag) returning (or raising) r. The object is left as
\* it is; the state keeps this call's outcome and the call's before it. An
\* object is rendered at most twice.
Call(class, flag, r) ==
    /\ cls = class
    /\ prev = NotRendered
    /\ sanitize' = flag
    /\ result' = r
    /\ prevSanitize' = sanitize
    /\ prev' = result
    /\ UNCHANGED <<cls, self>>

CallCodeBlock ==
    \E flag \in BOOLEAN : Call("CodeBlock", flag, CodeBlock_html(self, flag))
CallHeaderBlock ==
    \E flag \in BOOLEAN : Call("HeaderBlock", flag, HeaderBlock_html(self, flag))
CallParagraphBlock ==
    \E flag \in BOOLEAN :
        Call("ParagraphBlock", flag, ParagraphBlock_html(self, flag))
CallWarningBlock ==
    \E flag \in BOOLEAN : Call("WarningBlock", flag, WarningBlock_html(self, flag))
CallQuoteBlock ==
    \E flag \in BOOLEAN : Call("QuoteBlock", flag, QuoteBlock_html(self, flag))
CallListBlock ==
    \E flag \in BOOLEAN : Call("ListBlock", flag, ListBlock_html(self, flag))
CallDelimiterBlock ==
    \E flag \in BOOLEAN :
        Call("DelimiterBlock", flag, DelimiterBlock_html(self, flag))
CallRawBlock ==
    \E flag \in BOOLEAN : Call("RawBlock", flag, RawBlock_html(self, flag))
CallEmbedBlock ==
    \E flag \in BOOLEAN : Call("EmbedBlock", flag, EmbedBlock_html(self, flag))
CallMediaBlock ==
    \E flag \in BOOLEAN : Call("MediaBlock", flag, MediaBlock_html(self, flag))
CallTelegramPost ==
    \E flag \in BOOLEAN : Call("TelegramPost", flag, TelegramPost_html(self, flag))

Next ==
    \/ CallCodeBlock
    \/ CallHeaderBlock
    \/ CallParagraphBlock
    \/ CallWarningBlock
    \/ CallQuoteBlock
    \/ CallListBlock
    \/ CallDelimiterBlock
    \/ CallRawBlock
    \/ CallEmbedBlock
    \/ CallMediaBlock
    \/ CallTelegramPost

Spec == Init /\ [][Next]_vars

\* ------------------------------------------------- reading an output
Rendered == result.t \in {"ok", "raise"}
Returned == result.t = "ok"

\* How many times the piece tok occurs in out.
Count(out, tok) == Cardinality({i \in 1..Len(out) : out[i] = tok})
Has(out, tok) == \E i \in 1..Len(out) : out[i] = tok

\* The first index at or after i where out holds a piece of toks;
\* Len(out) + 1 if there is none.
RECURSIVE Find(_, _, _)
Find(out, i, toks) ==
    IF i > Len(out) THEN Len(out) + 1
    ELSE IF out[i] \in toks THEN i
    ELSE Find(out, i + 1, toks)

\* What stands between each opening piece and the next closing piece.
RECURSIVE Segments(_, _, _, _)
Segments(out, i, open, closes) ==
    LET a == Find(out, i, {open})
        b == Find(out, a + 1, closes)
    IN IF a > Len(out) THEN <<>>
       ELSE <<SubSeq(out, a + 1, b - 1)>> \o Segments(out, b + 1, open, closes)

\* A text as html(sanitize) is to write it.
AsWritten(s) == IF sanitize THEN bleach_clean(s, SanitizeTags) ELSE s

\* The last n pieces of out.
Tail_(out, n) == SubSeq(out, Len(out) - n + 1, Len(out))

\* ---------------------------------------------------------------- C1
\* C1: a header block whose level is an integer in 1..6 (or absent, i.e. 1)
\* renders as <h{level} ...>...</h{level}>; any other level raises
\* EditorJsParseError. Stated on the header blocks whose text is present.
C1_HeaderLevelContract ==
    (cls = "HeaderBlock" /\ Rendered /\ HeaderBlock_text(self).t = "str") =>
        LET level == Get(data(self), "level", PyInt(1))
        IN IF level.t = "int" /\ level.v \in 1..6
           THEN /\ Returned
                /\ SubSeq(result.v, 1, 2) = <<"<h", ToString(level.v)>>
                /\ Tail_(result.v, 3) = <<"</h", ToString(level.v), ">">>
           ELSE result = Raise("EditorJsParseError")

\* ---------------------------------------------------------------- C2
\* C2: a list block of style 'ordered' renders as one <ol>, of style
\* 'unordered' as one <ul>, holding one <li> per item, in the items' order
\* (none for no items); any other style, an absent one too, raises
\* EditorJsParseError.
C2_ListContract ==
    (cls = "ListBlock" /\ Rendered) =>
        LET style == ListBlock_style(self)
            items == ListBlock_items(self).v
            tag == IF style.v = <<"ordered">> THEN "ol" ELSE "ul"
        IN IF style.t = "str" /\ style.v \in {<<"ordered">>, <<"unordered">>}
           THEN /\ Returned
                /\ SubSeq(result.v, 1, 2) = <<"<", tag>>
                /\ Tail_(result.v, 3) = <<"</", tag, ">">>
                /\ Count(result.v, "<") = 1
                /\ Count(result.v, "<li>") = Len(items)
                /\ Segments(result.v, 1, "<li>", {"</li>"})
                     = [i \in 1..Len(items) |-> AsWritten(items[i].v)]
           ELSE result = Raise("EditorJsParseError")

C2_Witness ==
    /\ cls = "ListBlock" /\ Returned /\ sanitize
    /\ ListBlock_style(self) = Str(<<"ordered">>)
    /\ Len(ListBlock_items(self).v) = 2
    /\ ListBlock_items(self).v[1] = Str(<<"<input>">>)
    /\ ListBlock_items(self).v[2] = Str(<<"Hi">>)

\* ---------------------------------------------------------------- C3
\* C3: html() raises only for an invalid header level and an invalid list
\* style; under every other missing field, whatever the class and the flag,
\* it returns a string and never raises.
C3_OnlyTwoValidationsRaise ==
    Rendered =>
        \/ cls = "HeaderBlock" /\ HeaderBlock_level(self).t = "raise"
        \/ cls = "ListBlock" /\ ~ValidStyle(ListBlock_style(self))
        \/ Returned

BoldTags(out) ==
    LET kept == SelectSeq(out, LAMBDA tok :
                    tok \in {"<b>", "</b>", "    <b class=\"ce-warning__title\">"})
    IN [i \in 1..Len(kept) |-> IF kept[i] = "</b>" THEN "</b>" ELSE "<b>"]

CiteOpen == "<cite class=\"ce-quote__caption\">"
QuoteCites(out) == Segments(out, 1, CiteOpen, {"</cite>"})
QuoteText(out) ==
    Segments(out, 1, "      <blockquote class=\"ce-quote__blockquote\">",
             {CiteOpen, "      </blockquote>"})
\* One cite holding s, or none for an empty s.
CiteOf(s) == IF s = <<>> THEN <<>> ELSE <<AsWritten(s)>>

\* C6 as claimed: under either flag, a caption ending with <br> loses exactly
\* one trailing <br> before it is put in the cite; the text is written
\* untrimmed; an empty caption gives no cite.
C6_TrimRawCaption ==
    (cls = "QuoteBlock" /\ Returned) =>
        LET caption == QuoteBlock_caption(self).v
        IN /\ EndsWithBr(caption) =>
                QuoteCites(result.v) = CiteOf(AsWritten(DropLast(caption)))
           /\ QuoteBlock_text(self).t = "str" =>
                QuoteText(result.v) = <<AsWritten(QuoteBlock_text(self).v)>>
           /\ caption = <<>> => QuoteCites(result.v) = <<>>

\* C6 as amended: the rule reads the caption as html() holds it when it
\* trims, which is the sanitized caption when the flag is set and the raw
\* one otherwise: if that string ends with <br>, exactly one trailing <br> is
\* removed from it before it is put in the cite; the text is written
\* untrimmed; an empty caption gives no cite.
C6_TrimCaptionAsHeld ==
    (cls = "QuoteBlock" /\ Returned) =>
        LET caption == QuoteBlock_caption(self).v
            held == AsWritten(caption)
        IN /\ EndsWithBr(held) => QuoteCites(result.v) = CiteOf(DropLast(held))
           /\ QuoteBlock_text(self).t = "str" =>
                QuoteText(result.v) = <<AsWritten(QuoteBlock_text(self).v)>>
           /\ caption = <<>> => QuoteCites(result.v) = <<>>

C6_Witness ==
    /\ cls = "QuoteBlock" /\ Returned /\ sanitize
    /\ QuoteBlock_caption(self) = Str(<<"cap", "<br>">>)
    /\ QuoteBlock_text(self) = Str(<<"Hi", "<br>">>)
    /\ QuoteCites(result.v) = <<(<<"cap">>)>>
    /\ QuoteText(result.v) = <<(<<"Hi", "<br>">>)>>

\* ---------------------------------------------------------------- C7
ImgOpen == "     <img class=\"media-tool__media-picture\" src=\""
VideoOpen == "     <video class=\"media-tool__media-picture\" src=\""
MediaFigcaption == "<figcaption class=\"media-tool__caption\" data-placeholder=\""

\* C7: the output of a media block follows the start of its mimetype: an
\* image that is not image/svg gives one <img> whose srcset is built from
\* urls.normal, urls.medium and urls.small ('{normal} 1080w', '{medium} 720w',
\* '{small} 480w'); an image/svg image gives one <img> with src = urls.full
\* and no srcset; a video gives one <video> with controls and no <img>; any
\* other mimetype gives neither, only the caption figure.
C7_MediaByMimetype ==
    (cls = "MediaBlock" /\ Returned) =>
        LET mimetype == MediaBlock_file_mimetype(self).v
            _url == MediaBlock_file_url(self)
            out == result.v
        IN /\ Count(out, MediaFigcaption) = 1
           /\ IF StartsWith(mimetype, "image") /\ ~ContainsImageSvg(mimetype)
              THEN /\ Count(out, ImgOpen) = 1 /\ Count(out, VideoOpen) = 0
                   /\ Segments(out, 1, "srcset=\"", {"\" "})
                        = << Fmt(Get(_url, "normal", None)) \o <<" 1080w, ">>
                             \o Fmt(Get(_url, "medium", None)) \o <<" 720w, ">>
                             \o Fmt(Get(_url, "small", None)) \o <<" 480w">> >>
              ELSE IF StartsWith(mimetype, "image")
              THEN /\ Count(out, ImgOpen) = 1 /\ Count(out, VideoOpen) = 0
                   /\ Segments(out, 1, ImgOpen, {"\" "})
                        = <<Fmt(Get(_url, "full", Str(<<>>)))>>
                   /\ ~Has(out, "srcset=\"")
              ELSE IF StartsWith(mimetype, "video")
              THEN /\ Count(out, VideoOpen) = 1 /\ Count(out, ImgOpen) = 0
                   /\ Segments(out, 1, VideoOpen, {"\" controls=\"\"></video>"})
                        = <<Fmt(Get(_url, "full", Str(<<>>)))>>
              ELSE Count(out, ImgOpen) = 0 /\ Count(out, VideoOpen) = 0

C7_Witness ==
    /\ cls = "MediaBlock" /\ Returned
    /\ MediaBlock_file_mimetype(self) = Str(<<"image", "/", "svg", "+xml">>)
    /\ Count(result.v, ImgOpen) = 1
    /\ prev.t = "ok" /\ Has(prev.v, ImgOpen)

\* ---------------------------------------------------------------- C8
IframeOpen == "<iframe src=\""
TweetOpen == "<blockquote class=\"twitter-tweet\"><a href=\""
TweetScript ==
    "<script async src=\"https://platform.twitter.com/widgets.js\" charset=\"utf-8\"></script>"
EmbedFigcaption == "<figcaption class=\"embed-tool__caption\">"
\* The pieces YoutubeParts and TwitterParts write after the value they quote.
AfterQuoted ==
    {"\"></a></blockquote>",
     "\" width=\"100%\" style=\"aspect-ratio: 16/9\" frameborder=\"0\" allow=\"accelerometer; autoplay; clipboard-write; encrypted-media; gyroscope; picture-in-picture; web-share\" allowfullscreen></iframe>"}

\* C8: an embed block of service 'youtube' gives one <iframe> whose src is
\* data.embed and no twitter markup; of service 'twitter' the blockquote and
\* script whose link is data.source and no <iframe>; of any other service,
\* an absent one too, no media element at all. The <figcaption> is written
\* in all three cases.
C8_EmbedByService ==
    (cls = "EmbedBlock" /\ Returned) =>
        LET service == EmbedBlock_service(self).v
            out == result.v
        IN /\ Count(out, EmbedFigcaption) = 1
           /\ IF service = <<"youtube">>
              THEN /\ Segments(out, 1, IframeOpen, AfterQuoted)
                        = <<Fmt(EmbedBlock_embed(self))>>
                   /\ Count(out, TweetOpen) = 0 /\ Count(out, TweetScript) = 0
              ELSE IF service = <<"twitter">>
              THEN /\ Segments(out, 1, TweetOpen, AfterQuoted)
                        = <<Fmt(EmbedBlock_source(self))>>
                   /\ Count(out, TweetScript) = 1
                   /\ Count(out, IframeOpen) = 0
              ELSE /\ Count(out, IframeOpen) = 0
                   /\ Count(out, TweetOpen) = 0 /\ Count(out, TweetScript) = 0
                   /\ Count(out, "<blockquote class=\"twitter-tweet\">") = 0

C8_Witness ==
    /\ cls = "EmbedBlock" /\ Returned
    /\ EmbedBlock_service(self) = Str(<<"vimeo">>)
    /\ Count(result.v, EmbedFigcaption) = 1
    /\ "embed" \in DOMAIN data(self).v

\* ---------------------------------------------------------------- C9
\* C9: under either flag and for all four combinations of title and message
\* being present, a warning block renders its wrapper, the title element iff
\* the title is present and not empty, and the message element iff the
\* message is present and not empty.
C9_WarningParts ==
    (cls = "WarningBlock" /\ Rendered) =>
        /\ Returned
        /\ SubSeq(result.v, 1, 2)
             = <<"<div class=\"cdx-block ce-warning\">",
                 "  <blockquote class=\"ce-warning__blockquote\">">>
        /\ Tail_(result.v, 2) = <<"  </blockquote>", "</div>">>
        /\ Has(result.v, "    <b class=\"ce-warning__title\">")
             <=> Truthy(WarningBlock_title(self))
        /\ Has(result.v, "    <div class=\"ce-warning__message\">")
             <=> Truthy(WarningBlock_message(self))

\* --------------------------------------------------------------- C10
\* C10: in a quote block's output the class ce-quote-with-caption and the
\* <cite> element agree, for every caption and either flag: the class is
\* there iff a cite is.
C10_ClassAgreesWithCite ==
    (cls = "QuoteBlock" /\ Returned) =>
        (Has(result.v, " ce-quote-with-caption") <=> Has(result.v, CiteOpen))

====
